---- MODULE Spec2Model ----
(***************************************************************************)
(* Model of the fixflow deploy orchestrator backend: the job store         *)
(* (app.py `deployments`), the job functions (process_* workers), the      *)
(* history file persistence, the log streaming generator and the thread    *)
(* manager (thread_manager.py).                                            *)
(*                                                                         *)
(* Python threads interleave between statements, so a handler or a worker  *)
(* is a process with a program counter; one action is one step of it.      *)
(***************************************************************************)
EXTENDS Integers, Sequences, FiniteSets, TLC

\* ------------------------------------------------------------------ bounds
MaxJobs == 1        \* jobs submitted to the running process
MaxLines == 1       \* output lines a job function appends before it ends
MaxClears == 1      \* clear_deployment_history requests
MaxReaders == 1     \* concurrent log streams
MaxCalls == 2       \* calls made to the thread manager
MaxWorkers == 2     \* largest max_workers a manager is built with
MaxBase == 2        \* largest number of threads the server itself runs
MaxSavers == 3      \* request handlers that insert a record and save
MaxClock == 13      \* seconds on the clock
MaxBoots == 2       \* times the process is started
MaxOutput == 5      \* output lines of a command, log lines of a template run
MaxSteps == 2       \* steps of a template
MaxGetters == 3     \* concurrent callers of get_executor
MaxShutdowns == 1   \* callers of shutdown_executor

JobIds == 1..MaxJobs        \* ids of the jobs submitted to this process
LoadedId == 0               \* id of a job loaded from the history file at start
AllIds == JobIds \cup {LoadedId}
Readers == 1..MaxReaders
Calls == 1..MaxCalls
Savers == 1..MaxSavers
JobTypes == {"file", "command", "systemd", "rollback", "sql"}
TerminalStatus == {"success", "failed"}

VARIABLES
    deployments,    \* app.py:59  job id -> record, the shared in-memory store
    histFile,       \* deployment_history.json: [kind, valid, data]
    created,        \* job ids already handed out by uuid.uuid4()
    wtype,          \* per job: which job function runs it (its route)
    wpc,            \* per job: position of its job function
    wout,           \* per job: output lines appended so far by the function
    wrc,            \* per job: outcome of the external command (0, 1; 2: source file missing)
    werr,           \* per job: an exception was raised inside the function
    cpc,            \* clear_deployment_history handler: "idle" or "save"
    clears,         \* number of clear requests so far
    creq,           \* the last clear request: its kind and the jobs older than its cutoff
    obs,            \* per job: last response of the JSON log query
    rpc,            \* per stream: position of generate()
    rjob,           \* per stream: the job id of the request
    rcap,           \* per stream: the record object bound to `deployment`
    ridx,           \* per stream: lines the replay loop has passed
    rlast,          \* per stream: last_log_count
    rsent,          \* per stream: the events yielded so far
    rmiss,          \* per stream: the membership test (867) found no such job
    rseen,          \* per stream: the list indices of the lines yielded so far
    sync_mode,      \* ThreadManager.sync_mode
    max_workers,    \* ThreadManager.max_workers
    baseThreads,    \* threads of the server process that run no job
    softLimit,      \* soft limit of RLIMIT_NPROC, -1 for unlimited, or LimitsUnreadable, MonitoringFails
    active_threads, \* ThreadManager.active_threads, as the set of its keys
    poolThreads,    \* worker threads the executor has started
    pqueue,         \* tasks queued in the executor
    thr,            \* per call: the thread or task it created
    kpc,            \* per call: position of the caller
    kapi,           \* per call: the entry point used
    kraise,         \* per call: whether the job function raises
    kcount,         \* per call: current_count read on entry
    kres,           \* per call: what the caller got back
    kheld,          \* per call in progress: functions executing since before the call
    kfull,          \* per call: max_workers functions were executing all through it
    fnran,          \* per call: the job function has run to its end
    lock,           \* the owner of ThreadManager._lock
    thread_results, \* per call: what _wrapped_task recorded for the task
    spc,            \* per saving handler: position in save_deployment_history
    skeys,          \* per saving handler: the keys json.dump began to iterate over
    backups,        \* the files matching deployment_history_*.json: name -> content
    now,            \* the clock, in seconds
    boot,           \* "down" before app.py is imported, "up" afterwards
    boots,          \* how many times app.py has been imported
    active_deployments, \* deploy_template.py:20  template deployment id -> record
    tpc,            \* position of run_template_deployment
    tsteps,         \* template['steps'] of the request, as the list of their 'order' values
    tnext,          \* run_template_deployment: position of the for loop in the sorted list
    tdone,          \* the steps executed so far, each with its result
    tread,          \* save_deployment_to_history: the dict it read from the history file
    tlogFile,       \* deployment_templates/<id>.log, a list of lines
    outputLen,      \* how many lines the external command of a job prints
    executor,       \* config.py:25  ProductionThreadingConfig._executor: <<>> for None, <<n>> for the n-th pool
    xlock,          \* config.py:26  ProductionThreadingConfig._lock: <<>> when free, <<g>> when caller g holds it
    xmade,          \* how many ThreadPoolExecutor objects have been created
    xpc,            \* per caller of get_executor: its position
    xgot,           \* per caller of get_executor: what it returned
    xspc            \* per caller of shutdown_executor: its position

storeVars == <<deployments, histFile, created, wtype, wpc, wout, wrc, werr, cpc, clears, creq, obs>>
streamVars == <<rpc, rjob, rcap, ridx, rlast, rsent, rmiss, rseen>>
tmVars == <<sync_mode, max_workers, baseThreads, softLimit, active_threads, poolThreads,
            pqueue, thr, kpc, kapi, kraise, kcount, kres, kheld, kfull, fnran,
            lock, thread_results>>
saveVars == <<spc, skeys, backups, now, boot, boots>>
tplVars == <<active_deployments, tpc, tsteps, tnext, tdone, tread, tlogFile, outputLen>>
cfgVars == <<executor, xlock, xmade, xpc, xgot, xspc>>
vars == <<storeVars, streamVars, tmVars, saveVars, tplVars, cfgVars>>

\* ------------------------------------------------------------- the store
\* app.py:341-354, 684-695, 988-1001, 1176-1185, db_routes.py:78-90:
\* every route creates its record with status "running", no log lines and
\* a numeric timestamp (tsIso = FALSE; get_deployment_history rewrites the
\* field as an ISO string, tsIso = TRUE).
NewRecord(t) == [type |-> t, status |-> "running", logs |-> <<>>, tsIso |-> FALSE]

EmptyStore == [k \in {} |-> NewRecord("file")]

StoreUntouched(d, j, rec) == d

StorePut(d, j, rec) == [k \in (DOMAIN d) \cup {j} |-> IF k = j THEN rec ELSE d[k]]
StoreRemove(d, S) == [k \in (DOMAIN d) \ S |-> d[k]]

log_message_creating(d, j, line) ==
    IF j \in DOMAIN d
    THEN [d EXCEPT ![j].logs = Append(@, line)]
    ELSE [k \in (DOMAIN d) \cup {j} |->
            IF k = j THEN [type |-> "file", status |-> "running", logs |-> <<line>>, tsIso |-> FALSE]
            ELSE d[k]]

\* app.py:166-175 log_message: append when the id is known, else nothing.
log_message(d, j, line) ==
    IF j \in DOMAIN d THEN [d EXCEPT ![j].logs = Append(@, line)] ELSE d

\* thread_manager.py:369-380 thread_safe_log_message: the same append under
\* the manager's lock; the result tells whether the id was known.
thread_safe_log_message(d, j, line) ==
    [store |-> IF j \in DOMAIN d THEN [d EXCEPT ![j].logs = Append(@, line)] ELSE d,
     result |-> j \in DOMAIN d]

\* deployments[id]["status"] = s, for an id that is in the store.
SetStatus(d, j, s) == [d EXCEPT ![j].status = s]

\* json.dump (app.py:150) writes every record as a JSON object, its members
\* in the order the handlers put them in (341-354): type, status, timestamp
\* (a number, or a string once get_deployment_history rewrote it), logs.
JsonObject(rec) ==
    << <<"type", rec.type>>,
       <<"status", rec.status>>,
       <<"timestamp", IF rec.tsIso THEN "string" ELSE "number">>,
       <<"logs", rec.logs>> >>

json_dump(d) == [j \in DOMAIN d |-> JsonObject(d[j])]

Member(o, name) == o[CHOOSE i \in 1..Len(o) : o[i][1] = name][2]

ParsedReversed(o) ==
    [type |-> Member(o, "type"), status |-> Member(o, "status"),
     logs |-> [i \in 1..Len(Member(o, "logs")) |->
                  Member(o, "logs")[Len(Member(o, "logs")) + 1 - i]],
     tsIso |-> Member(o, "timestamp") = "string"]

\* json.load (app.py:66, 83, 832) builds a dict out of each JSON object.
ParsedObject(o) ==
    [type |-> Member(o, "type"), status |-> Member(o, "status"),
     logs |-> Member(o, "logs"), tsIso |-> Member(o, "timestamp") = "string"]

json_load(text) == [j \in DOMAIN text |-> ParsedObject(text[j])]

\* app.py:134-163 save_deployment_history: the canonical file receives the
\* JSON text of the whole store.
SavedFile(d) == [kind |-> "json", valid |-> TRUE, data |-> json_dump(d)]

IsPrefix(s, t) == Len(s) <= Len(t) /\ SubSeq(t, 1, Len(s)) = s

StatusRank(s) == CASE s = "none" -> 0
                   [] s = "pending" -> 1
                   [] s = "initializing" -> 1
                   [] s = "running" -> 2
                   [] OTHER -> 3

\* ------------------------------------------------------------------ lines
OutLine(k) == <<"out", k>>
SuccessLine == <<"SUCCESS", 0>>
ErrorLine == <<"ERROR", 0>>
ExceptionLine == <<"ERROR: Exception", 0>>
RollbackDoneLine == <<"Rollback operation completed", 0>>
SourceMissingLine == <<"ERROR: Source file not found", 0>>

\* ------------------------------------------------------- submission routes
\* deploy_file (app.py:321-363), run_shell_command (666-704),
\* rollback_deployment (971-1010), systemd_operation (1158-1194) and
\* deploy_sql (db_routes.py:55-103): insert the record, save the history,
\* start the job function.  rollback needs an existing file deployment.
SubmitJob(j, t) ==
    /\ j \notin created
    /\ j = Cardinality(created) + 1      \* uuid4: a fresh id
    /\ t = "rollback" =>
           \E o \in DOMAIN deployments : deployments[o].type = "file"
    /\ created' = created \cup {j}
    /\ deployments' = StorePut(deployments, j, NewRecord(t))
    /\ histFile' = SavedFile(deployments')
    /\ wtype' = [wtype EXCEPT ![j] = t]
    /\ wpc' = [wpc EXCEPT ![j] = "start"]
    /\ UNCHANGED <<wout, wrc, werr, cpc, clears, creq, obs, streamVars, tmVars, saveVars, tplVars, cfgVars>>

\* ------------------------------------------------------------ job functions
\* process_file_deployment (app.py:365-541), process_shell_command
\* (706-820), process_rollback (1012-1117), process_systemd_operation
\* (1196-1297), process_sql_deployment (db_routes.py:105-268).

\* ThreadManager (thread_manager.py:52-355) defines no log_thread_safe, so
\* every thread_manager.log_thread_safe(...) call of process_sql_deployment
\* raises AttributeError.
HasLogThreadSafe == FALSE

\* Job functions whose first statement, `deployment = deployments[id]`,
\* stands before the try (app.py:366, 707, 1013).
LooksUpBeforeTry(t) == t \in {"file", "command", "rollback"}

\* Where the first statements of a job function lead.
\*  file/command/rollback: KeyError leaves the function when the id is gone.
\*  systemd (app.py:1196-1198): no lookup.
\*  sql (db_routes.py:113-129): inside the try; the branch for a missing id
\*    (116) and the one for a known id (129) both call log_thread_safe.
AfterStart(t, present) ==
    CASE LooksUpBeforeTry(t) -> IF present THEN "body" ELSE "crashed"
      [] t = "sql" -> IF HasLogThreadSafe
                      THEN (IF present THEN "body" ELSE "done")
                      ELSE "handler"
      [] OTHER -> "body"

JobStart(j) ==
    /\ wpc[j] = "start"
    /\ wpc' = [wpc EXCEPT ![j] = AfterStart(wtype[j], j \in DOMAIN deployments)]
    /\ werr' = [werr EXCEPT ![j] = wpc'[j] \in {"handler", "crashed"}]
    /\ UNCHANGED <<deployments, histFile, created, wtype, wout, wrc, cpc, clears, creq, obs, streamVars, tmVars, saveVars, tplVars, cfgVars>>

\* One line of the external command's output goes to the log
\* (app.py:509-513, 789-793, 1091-1092, 1269-1270).
JobAppend(j) ==
    /\ wpc[j] = "body"
    /\ wout[j] < outputLen
    /\ wout' = [wout EXCEPT ![j] = @ + 1]
    /\ deployments' = log_message(deployments, j, OutLine(wout[j] + 1))
    /\ UNCHANGED <<histFile, created, wtype, wpc, wrc, werr, cpc, clears, creq, obs, streamVars, tmVars, saveVars, tplVars, cfgVars>>

\* Any statement of the try block raises (open(), Popen, ...).
JobRaise(j) ==
    /\ wpc[j] = "body"
    /\ wpc' = [wpc EXCEPT ![j] = "handler"]
    /\ werr' = [werr EXCEPT ![j] = TRUE]
    /\ UNCHANGED <<deployments, histFile, created, wtype, wout, wrc, cpc, clears, creq, obs, streamVars, tmVars, saveVars, tplVars, cfgVars>>

\* The external command ends with return code rc (0 or 1); rc = 2 stands
\* for process_file_deployment's missing source file (app.py:380-386),
\* which is found before anything is logged.
\* process_rollback sets the status before its last line (app.py:1109-1110),
\* the other functions log first (app.py:517-524, 797-804, 1274-1281).
JobFinish(j, rc) ==
    /\ wpc[j] = "body"
    /\ rc = 2 => (wtype[j] = "file" /\ wout[j] = 0)
    /\ wrc' = [wrc EXCEPT ![j] = rc]
    /\ wpc' = [wpc EXCEPT ![j] =
           IF wtype[j] = "rollback" THEN "finalStatus" ELSE "finalLog"]
    /\ UNCHANGED <<deployments, histFile, created, wtype, wout, werr, cpc, clears, creq, obs, streamVars, tmVars, saveVars, tplVars, cfgVars>>

FinalLine(t, rc) ==
    CASE t = "rollback" -> RollbackDoneLine
      [] rc = 0 -> SuccessLine
      [] rc = 2 -> SourceMissingLine
      [] OTHER -> ErrorLine

\* process_rollback ends "success" whatever the per-VM return codes were
\* (app.py:1096-1109); the others follow the return code.
FinalStatus(t, rc) ==
    IF t = "rollback" \/ rc = 0 THEN "success" ELSE "failed"

JobFinalLog(j) ==
    /\ wpc[j] = "finalLog"
    /\ deployments' = log_message(deployments, j, FinalLine(wtype[j], wrc[j]))
    /\ wpc' = [wpc EXCEPT ![j] =
           IF wtype[j] = "rollback" THEN "save" ELSE "finalStatus"]
    /\ UNCHANGED <<histFile, created, wtype, wout, wrc, werr, cpc, clears, creq, obs, streamVars, tmVars, saveVars, tplVars, cfgVars>>

AfterFinalStatusNoSave(t) == IF t = "rollback" THEN "finalLog" ELSE "done"

\* What follows the status assignment: process_rollback logs its last line
\* (1110) and saves (1111); the others save (app.py:535, 814, 1291).
AfterFinalStatus(t) == IF t = "rollback" THEN "finalLog" ELSE "save"

\* deployments[id]["status"] = ...: KeyError, inside the try, when the id
\* has been purged.
JobFinalStatus(j) ==
    /\ wpc[j] = "finalStatus"
    /\ IF j \in DOMAIN deployments
       THEN /\ deployments' = SetStatus(deployments, j, FinalStatus(wtype[j], wrc[j]))
            /\ wpc' = [wpc EXCEPT ![j] = AfterFinalStatus(wtype[j])]
       ELSE /\ wpc' = [wpc EXCEPT ![j] = "handler"]
            /\ UNCHANGED deployments
    /\ werr' = [werr EXCEPT ![j] = @ \/ wpc'[j] = "handler"]
    /\ UNCHANGED <<histFile, created, wtype, wout, wrc, cpc, clears, creq, obs, streamVars, tmVars, saveVars, tplVars, cfgVars>>

\* save_deployment_history() at the end of the try (app.py:385, 535, 814,
\* 1111, 1291).
JobSave(j) ==
    /\ wpc[j] = "save"
    /\ histFile' = SavedFile(deployments)
    /\ wpc' = [wpc EXCEPT ![j] = "done"]
    /\ UNCHANGED <<deployments, created, wtype, wout, wrc, werr, cpc, clears, creq, obs, streamVars, tmVars, saveVars, tplVars, cfgVars>>

\* except Exception: log the error (app.py:538, 817, 1114, 1294;
\* db_routes.py:263).  The sql handler then calls log_thread_safe (264),
\* which raises out of the function before the status is touched.
JobHandler(j) ==
    /\ wpc[j] = "handler"
    /\ deployments' = log_message(deployments, j, ExceptionLine)
    /\ wpc' = [wpc EXCEPT ![j] =
           IF wtype[j] = "sql" /\ ~HasLogThreadSafe THEN "crashed" ELSE "handlerStatus"]
    /\ UNCHANGED <<histFile, created, wtype, wout, wrc, werr, cpc, clears, creq, obs, streamVars, tmVars, saveVars, tplVars, cfgVars>>

\* deployments[id]["status"] = "failed" in the handler (app.py:539, 818,
\* 1115, 1295): KeyError leaves the function when the id has been purged.
\* The sql handler guards it with `if deployment_id in deployments`
\* (db_routes.py:266-268) and saves only then.
JobHandlerStatus(j) ==
    /\ wpc[j] = "handlerStatus"
    /\ IF j \in DOMAIN deployments
       THEN /\ deployments' = SetStatus(deployments, j, "failed")
            /\ wpc' = [wpc EXCEPT ![j] = "handlerSave"]
       ELSE /\ wpc' = [wpc EXCEPT ![j] = IF wtype[j] = "sql" THEN "done" ELSE "crashed"]
            /\ UNCHANGED deployments
    /\ UNCHANGED <<histFile, created, wtype, wout, wrc, werr, cpc, clears, creq, obs, streamVars, tmVars, saveVars, tplVars, cfgVars>>

JobHandlerSave(j) ==
    /\ wpc[j] = "handlerSave"
    /\ histFile' = SavedFile(deployments)
    /\ wpc' = [wpc EXCEPT ![j] = "done"]
    /\ UNCHANGED <<deployments, created, wtype, wout, wrc, werr, cpc, clears, creq, obs, streamVars, tmVars, saveVars, tplVars, cfgVars>>

JobStep(j) ==
    \/ JobStart(j)
    \/ JobAppend(j)
    \/ JobRaise(j)
    \/ \E rc \in 0..2 : JobFinish(j, rc)
    \/ JobFinalLog(j)
    \/ JobFinalStatus(j)
    \/ JobSave(j)
    \/ JobHandler(j)
    \/ JobHandlerStatus(j)
    \/ JobHandlerSave(j)

JobReturned(j) == wpc[j] \in {"done", "crashed"}

\* ------------------------------------------------------- request handlers
\* clear_deployment_history (app.py:1120-1154), first half: the purge.
\*  kind "all"   : days = 0, deployments.clear() (1135-1136);
\*  kind "older" : days > 0, S is the set of jobs older than the cutoff; the
\*                 comparison `timestamp < cutoff_time` (1138-1139) raises
\*                 TypeError on a timestamp that get_deployment_history has
\*                 rewritten as a string, and the request ends there;
\*  kind "neg"   : days < 0, rejected (1125-1126).
PurgeSet(d, kind, S) ==
    CASE kind = "all" -> DOMAIN d
      [] kind = "older" -> IF \E k \in DOMAIN d : d[k].tsIso THEN {} ELSE S
      [] OTHER -> {}

PurgeReachesSave(d, kind) ==
    \/ kind = "all"
    \/ kind = "older" /\ ~(\E k \in DOMAIN d : d[k].tsIso)

\* A stream keeps the record object it bound to `deployment` (app.py:868)
\* after the purge has removed it from the store: the object no longer
\* changes, since every writer goes through deployments[id].
Detached(cap, P) ==
    [r \in Readers |->
        IF cap[r].bound /\ ~cap[r].stale /\ rjob[r] \in P
        THEN [bound |-> TRUE, stale |-> TRUE, rec |-> deployments[rjob[r]]]
        ELSE cap[r]]

ClearPurge(kind, S) ==
    /\ cpc = "idle"
    /\ clears < MaxClears
    /\ S \subseteq DOMAIN deployments
    /\ kind # "older" => S = {}
    /\ clears' = clears + 1
    /\ creq' = [kind |-> kind, older |-> S]
    /\ deployments' = StoreRemove(deployments, PurgeSet(deployments, kind, S))
    /\ cpc' = IF PurgeReachesSave(deployments, kind) THEN "save" ELSE "idle"
    /\ rcap' = Detached(rcap, PurgeSet(deployments, kind, S))
    /\ UNCHANGED <<histFile, created, wtype, wpc, wout, wrc, werr, obs>>
    /\ UNCHANGED <<rpc, rjob, ridx, rlast, rsent, rmiss, rseen, tmVars, saveVars, tplVars, cfgVars>>

\* clear_deployment_history, second half: save_deployment_history() (1148).
ClearSave ==
    /\ cpc = "save"
    /\ histFile' = SavedFile(deployments)
    /\ cpc' = "idle"
    /\ UNCHANGED <<deployments, created, wtype, wpc, wout, wrc, werr, clears, creq, obs, streamVars, tmVars, saveVars, tplVars, cfgVars>>

\* get_deployment_history (app.py:823-855).
\* With an empty store, the history file is read and, when it parses and
\* holds jobs, its content becomes the store (828-839).
ReloadedStore(d, f) ==
    IF DOMAIN d = {} /\ f.valid /\ DOMAIN json_load(f.data) # {} THEN json_load(f.data) ELSE d

\* Then every record's timestamp is rewritten in place as an ISO string
\* (849-850).  sorted() or time.localtime() raise TypeError as soon as one
\* record already holds a string, before any record is changed.
IsoStamped(d) ==
    IF \E k \in DOMAIN d : d[k].tsIso
    THEN d
    ELSE [k \in DOMAIN d |-> [d[k] EXCEPT !.tsIso = TRUE]]

GetHistory ==
    /\ deployments' = IsoStamped(ReloadedStore(deployments, histFile))
    /\ deployments' # deployments
    /\ UNCHANGED <<histFile, created, wtype, wpc, wout, wrc, werr, cpc, clears, creq, obs, streamVars, tmVars, saveVars, tplVars, cfgVars>>

\* get_deployment_logs / get_command_logs, JSON branch (app.py:905-911,
\* 961-967): the client receives the job's log and status, or 404.
LogsResponse(d, j) == [found |-> TRUE, status |-> d[j].status, logs |-> d[j].logs]

NotFoundResponse == [found |-> FALSE, status |-> "Deployment not found", logs |-> <<>>]

LogsQuery(d, j) == IF j \in DOMAIN d THEN LogsResponse(d, j) ELSE NotFoundResponse

GetLogs(j) ==
    /\ obs' = [obs EXCEPT ![j] = LogsQuery(deployments, j)]
    /\ obs' # obs
    /\ UNCHANGED <<deployments, histFile, created, wtype, wpc, wout, wrc, werr, cpc, clears, creq, streamVars, tmVars, saveVars, tplVars, cfgVars>>

\* --------------------------------------------------------- streaming reader
\* get_deployment_logs with Accept: text/event-stream (app.py:864-902), and
\* get_command_logs (920-958), which has the same generator.
Unbound == [bound |-> FALSE, stale |-> FALSE, rec |-> NewRecord("file")]

\* The record the name `deployment` refers to.
Captured(r) == IF rcap[r].stale THEN rcap[r].rec ELSE deployments[rjob[r]]

MessageEvent(line) == <<"message", line>>
StatusEvent(s) == <<"status", <<s, 0>> >>
NotFoundEvent == <<"error", <<"Deployment not found", 0>> >>

\* The events `for i in range(last_log_count, current_count)` yields (888-889).
RECURSIVE NewEvents(_, _, _)
NewEvents(logs, from, to) ==
    IF from >= to THEN <<>>
    ELSE <<MessageEvent(logs[from + 1])>> \o NewEvents(logs, from + 1, to)

\* generate() is entered: the membership test (867), and the error event
\* when the id is unknown (899-900).
StreamOpen(r, j) ==
    /\ rpc[r] = "idle"
    /\ rjob' = [rjob EXCEPT ![r] = j]
    /\ rmiss' = [rmiss EXCEPT ![r] = j \notin DOMAIN deployments]
    /\ IF j \in DOMAIN deployments
       THEN /\ rpc' = [rpc EXCEPT ![r] = "bind"]
            /\ UNCHANGED rsent
       ELSE /\ rpc' = [rpc EXCEPT ![r] = "done"]
            /\ rsent' = [rsent EXCEPT ![r] = <<NotFoundEvent>>]
    /\ UNCHANGED <<rcap, ridx, rlast, rseen, storeVars, tmVars, saveVars, tplVars, cfgVars>>

\* deployment = deployments[deployment_id] (868): KeyError when the job has
\* been purged since the membership test.
StreamBind(r) ==
    /\ rpc[r] = "bind"
    /\ IF rjob[r] \in DOMAIN deployments
       THEN /\ rpc' = [rpc EXCEPT ![r] = "replay"]
            /\ rcap' = [rcap EXCEPT ![r] = [bound |-> TRUE, stale |-> FALSE, rec |-> NewRecord("file")]]
       ELSE /\ rpc' = [rpc EXCEPT ![r] = "crashed"]
            /\ UNCHANGED rcap
    /\ UNCHANGED <<rjob, ridx, rlast, rsent, rmiss, rseen, storeVars, tmVars, saveVars, tplVars, cfgVars>>

\* One turn of `for log in deployment.get("logs", [])` (870-871): the list
\* iterator yields the next line of the live list, or the loop ends.
StreamReplay(r) ==
    /\ rpc[r] = "replay"
    /\ IF ridx[r] < Len(Captured(r).logs)
       THEN /\ rsent' = [rsent EXCEPT ![r] = Append(@, MessageEvent(Captured(r).logs[ridx[r] + 1]))]
            /\ rseen' = [rseen EXCEPT ![r] = Append(@, ridx[r])]
            /\ ridx' = [ridx EXCEPT ![r] = @ + 1]
            /\ UNCHANGED rpc
       ELSE /\ rpc' = [rpc EXCEPT ![r] = "status"]
            /\ UNCHANGED <<rsent, ridx, rseen>>
    /\ UNCHANGED <<rjob, rcap, rlast, rmiss, storeVars, tmVars, saveVars, tplVars, cfgVars>>

\* The current status is sent (874).
StreamStatus(r) ==
    /\ rpc[r] = "status"
    /\ rsent' = [rsent EXCEPT ![r] = Append(@, StatusEvent(Captured(r).status))]
    /\ rpc' = [rpc EXCEPT ![r] = "check"]
    /\ UNCHANGED <<rjob, rcap, ridx, rlast, rmiss, rseen, storeVars, tmVars, saveVars, tplVars, cfgVars>>

\* The generator returns if the job is finished (877-878).
StreamCheck(r) ==
    /\ rpc[r] = "check"
    /\ rpc' = [rpc EXCEPT ![r] = IF Captured(r).status \in TerminalStatus THEN "done" ELSE "count"]
    /\ UNCHANGED <<rjob, rcap, ridx, rlast, rsent, rmiss, rseen, storeVars, tmVars, saveVars, tplVars, cfgVars>>

LastLogCountZero(rec) == 0

\* len(deployment.get("logs", [])) (881).
LastLogCount(rec) == Len(rec.logs)

\* The indices range(from, to) runs over (888), in order.
IndexRange(from, to) == [i \in 1..(IF to > from THEN to - from ELSE 0) |-> from + i - 1]

\* last_log_count = len(deployment.get("logs", [])) (881).
StreamCount(r) ==
    /\ rpc[r] = "count"
    /\ rlast' = [rlast EXCEPT ![r] = LastLogCount(Captured(r))]
    /\ rpc' = [rpc EXCEPT ![r] = "poll"]
    /\ UNCHANGED <<rjob, rcap, ridx, rsent, rmiss, rseen, storeVars, tmVars, saveVars, tplVars, cfgVars>>

\* The head of the polling loop (882-890): the loop ends when the job has
\* left the store; otherwise the lines past last_log_count are sent.
StreamPoll(r) ==
    /\ rpc[r] = "poll"
    /\ IF rjob[r] \in DOMAIN deployments
       THEN LET logs == deployments[rjob[r]].logs
            IN  /\ rsent' = [rsent EXCEPT ![r] = @ \o NewEvents(logs, rlast[r], Len(logs))]
                /\ rseen' = [rseen EXCEPT ![r] = @ \o IndexRange(rlast[r], Len(logs))]
                /\ rlast' = [rlast EXCEPT ![r] = IF Len(logs) > @ THEN Len(logs) ELSE @]
                /\ rpc' = [rpc EXCEPT ![r] = "pollStatus"]
       ELSE /\ rpc' = [rpc EXCEPT ![r] = "done"]
            /\ UNCHANGED <<rsent, rlast, rseen>>
    /\ UNCHANGED <<rjob, rcap, ridx, rmiss, storeVars, tmVars, saveVars, tplVars, cfgVars>>

\* The status test of the polling loop (893-898).  deployments[deployment_id]
\* raises KeyError when the job has been purged since the head of the loop.
StreamPollStatus(r) ==
    /\ rpc[r] = "pollStatus"
    /\ IF rjob[r] \in DOMAIN deployments
       THEN LET status == deployments[rjob[r]].status
            IN  IF status \in TerminalStatus
                THEN /\ rsent' = [rsent EXCEPT ![r] = Append(@, StatusEvent(status))]
                     /\ rpc' = [rpc EXCEPT ![r] = "done"]
                ELSE /\ rpc' = [rpc EXCEPT ![r] = "poll"]
                     /\ UNCHANGED rsent
       ELSE /\ rpc' = [rpc EXCEPT ![r] = "crashed"]
            /\ UNCHANGED rsent
    /\ UNCHANGED <<rjob, rcap, ridx, rlast, rmiss, rseen, storeVars, tmVars, saveVars, tplVars, cfgVars>>

StreamStep(r) ==
    \/ StreamBind(r)
    \/ StreamReplay(r)
    \/ StreamStatus(r)
    \/ StreamCheck(r)
    \/ StreamCount(r)
    \/ StreamPoll(r)
    \/ StreamPollStatus(r)

StreamEnded(r) == rpc[r] \in {"done", "crashed"}

\* The lines among the events of a stream, in the order sent.
RECURSIVE MessageLines(_)
MessageLines(ev) ==
    IF ev = <<>> THEN <<>>
    ELSE (IF ev[1][1] = "message" THEN <<ev[1][2]>> ELSE <<>>) \o MessageLines(Tail(ev))

\* ------------------------------------------------------------ ThreadManager
\* thread_manager.py.  A call c is one request handler invoking the manager
\* (or, for "direct", app.py starting a thread itself); the thread a call
\* creates carries the same index, as thread_id (136) is unique per call.
\*
\* sync_mode is assigned True at line 61 and tested at 69, 107 and 202; the
\* branches taken when the field is False are modelled as well.
ThreadLimit == 3            \* thread_manager.py:121
UnlimitedCap == 20          \* thread_manager.py:28
HardCap == 15               \* thread_manager.py:35
FallbackCap == 10           \* thread_manager.py:44
ErrorCap == 5               \* thread_manager.py:50

\* Values of softLimit for a process whose limits cannot be read, where
\* resource.getrlimit raises (21, 41-44), and for one where the monitoring
\* itself raises (17, 46-50).
LimitsUnreadable == -2
MonitoringFails == -3

MaxThreads == 21    \* threads of the largest server process

ManagedApis == {"safe_thread_start", "create_background_thread", "submit_deployment_task"}
Apis == ManagedApis \cup {"direct"}

\* self._lock (93) is free, or owned by the caller of call c, or by the
\* thread that call created.
NoOwner == <<>>
CallerOf(c) == <<"caller", c>>
ThreadOf(c) == <<"thread", c>>

Kept(owner) == owner

\* The end of a `with self._lock:` block (149, 162, 235, 242, 303).
Released(owner) == NoOwner

\* Where a caller, and where a created thread, enters `with self._lock:`.
LockedCallerPcs == {"cleanup", "register", "emergency", "record"}
LockedThreadPcs == {"finally", "cleanup", "record"}

\* What thread.start() (164) does: the thread starts, or RuntimeError
\* "can't start new thread" (168-173), or any other error (174-179).
StartOutcomes == {"started", "cannot", "other"}

\* A thread object for which is_alive() is true.
Alive(t) == thr[t] \in {"running", "finally", "cleanup"}

\* The calls whose job function is executing.
Executing == {c \in Calls : kpc[c] = "inline" \/ thr[c] \in {"running", "poolRunning"}}

\* threading.active_count(): the threads of the server, the started threads
\* and the worker threads of the executor.
ActiveCount == baseThreads + Cardinality({t \in Calls : Alive(t)}) + poolThreads

\* safe_monitor_thread_creation (15-50) for a thread count n and the soft
\* limit of RLIMIT_NPROC; n >= soft_limit * 0.8 is 5n >= 4 soft_limit.
MonitorAllowsAll(n, soft) == TRUE

safe_monitor_thread_creation(n, soft) ==
    CASE soft = MonitoringFails -> n < ErrorCap
      [] soft = LimitsUnreadable -> n < FallbackCap
      [] soft = -1 -> n < UnlimitedCap
      [] OTHER -> ~(5 * n >= 4 * soft \/ n >= HardCap)

\* cleanup_completed_threads (293-303).
cleanup_completed_threads(at) == {t \in at : Alive(t)}

\* The removal in the finally block of wrapped_target (147-149).
ReleaseSkipped(at, t) == at
ReleaseEntry(at, t) == at \ {t}

\* What the caller gets: safe_thread_start returns True or False (114, 117,
\* 125, 130, 166, 173); create_background_thread turns False into a
\* RuntimeError (250-254).
StartResult(api, ok) ==
    IF ok THEN "accepted"
    ELSE IF api = "create_background_thread" THEN "raised" ELSE "rejected"

\* Bookkeeping of the calls: a call that returns has its result recorded,
\* and kheld keeps, for every call still in progress, the functions that
\* have been executing ever since it was entered.
HeldAfter(ended, returning) ==
    [k \in Calls |->
        IF k \in returning \/ kpc[k] \in {"idle", "returned"}
        THEN {}
        ELSE kheld[k] \ ended]

Return(c, res) ==
    /\ kres' = [kres EXCEPT ![c] = res]
    /\ kpc' = [kpc EXCEPT ![c] = "returned"]
    /\ kcount' = [kcount EXCEPT ![c] = 0]
    /\ kfull' = [kfull EXCEPT ![c] = res = "accepted" /\ Cardinality(kheld[c]) >= max_workers]

Goto(c, pc) ==
    /\ kpc' = [kpc EXCEPT ![c] = pc]
    /\ UNCHANGED <<kres, kcount, kfull>>

\* The call is entered.  safe_thread_start reads the thread count first (103).
\* app.py creates and starts the thread itself (deploy_file 356-363).
CallBegin(c, api, raises) ==
    /\ kpc[c] = "idle"
    /\ c > 1 => kpc[c - 1] # "idle"
    /\ kapi' = [kapi EXCEPT ![c] = api]
    /\ kraise' = [kraise EXCEPT ![c] = raises]
    /\ IF api = "direct"
       THEN /\ thr' = [thr EXCEPT ![c] = "running"]
            /\ kres' = [kres EXCEPT ![c] = "accepted"]
            /\ kpc' = [kpc EXCEPT ![c] = "returned"]
            /\ UNCHANGED <<kcount, kheld>>
       ELSE /\ kpc' = [kpc EXCEPT ![c] =
                    IF sync_mode THEN "inline"
                    ELSE IF api = "submit_deployment_task" THEN "monitor" ELSE "limit"]
            /\ kcount' = [kcount EXCEPT ![c] =
                    IF ~sync_mode /\ api # "submit_deployment_task" THEN ActiveCount ELSE 0]
            /\ kheld' = [kheld EXCEPT ![c] = IF sync_mode THEN {} ELSE Executing]
            /\ UNCHANGED <<thr, kres>>
    /\ UNCHANGED <<sync_mode, max_workers, baseThreads, softLimit, active_threads,
                   poolThreads, pqueue, kfull, fnran>>
    /\ UNCHANGED <<lock, thread_results>>
    /\ UNCHANGED <<storeVars, streamVars, saveVars, tplVars, cfgVars>>

\* Synchronous mode: the function has run in the caller (110-117, 205-211,
\* 232-243).  _wrapped_task re-raises (243) and so does
\* submit_deployment_task (211).
SyncResult(api, raises) ==
    IF api = "submit_deployment_task"
    THEN (IF raises THEN "raised" ELSE "accepted")
    ELSE StartResult(api, ~raises)

InlineEnd(c) ==
    /\ kpc[c] = "inline"
    /\ fnran' = [fnran EXCEPT ![c] = TRUE]
    /\ IF kapi[c] = "submit_deployment_task"
       THEN /\ Goto(c, "record")
            /\ kheld' = HeldAfter({c}, {})
       ELSE /\ Return(c, SyncResult(kapi[c], kraise[c]))
            /\ kheld' = HeldAfter({c}, {c})
    /\ UNCHANGED <<sync_mode, max_workers, baseThreads, softLimit, active_threads,
                   poolThreads, pqueue, thr, kapi, kraise>>
    /\ UNCHANGED <<lock, thread_results>>
    /\ UNCHANGED <<storeVars, streamVars, saveVars, tplVars, cfgVars>>

\* What _wrapped_task stores under the lock (234-235, 241-242).
TaskResult(raises) == IF raises THEN "error" ELSE "success"

\* Synchronous mode: _wrapped_task records the result under the lock and the
\* call returns the task id or re-raises (206-211, 234-243).
RecordInline(c) ==
    /\ kpc[c] = "record"
    /\ lock = CallerOf(c)
    /\ lock' = Released(lock)
    /\ thread_results' = [thread_results EXCEPT ![c] = TaskResult(kraise[c])]
    /\ Return(c, SyncResult(kapi[c], kraise[c]))
    /\ kheld' = HeldAfter({}, {c})
    /\ UNCHANGED <<sync_mode, max_workers, baseThreads, softLimit, active_threads,
                   poolThreads, pqueue, thr, kapi, kraise, fnran>>
    /\ UNCHANGED <<storeVars, streamVars, saveVars, tplVars, cfgVars>>

\* `with self._lock:` is entered by a caller (161, 295) or by a created
\* thread (147, 234, 241, 295) once the lock is free.
AcquireCaller(c) ==
    /\ kpc[c] \in LockedCallerPcs
    /\ lock = NoOwner
    /\ lock' = CallerOf(c)
    /\ UNCHANGED <<sync_mode, max_workers, baseThreads, softLimit, active_threads,
                   poolThreads, pqueue, thr, kpc, kapi, kraise, kcount, kres, kheld, kfull,
                   fnran, thread_results>>
    /\ UNCHANGED <<storeVars, streamVars, saveVars, tplVars, cfgVars>>

AcquireThread(c) ==
    /\ thr[c] \in LockedThreadPcs
    /\ lock = NoOwner
    /\ lock' = ThreadOf(c)
    /\ UNCHANGED <<sync_mode, max_workers, baseThreads, softLimit, active_threads,
                   poolThreads, pqueue, thr, kpc, kapi, kraise, kcount, kres, kheld, kfull,
                   fnran, thread_results>>
    /\ UNCHANGED <<storeVars, streamVars, saveVars, tplVars, cfgVars>>

\* if current_count >= 3 (121-125).
LimitCheck(c) ==
    /\ kpc[c] = "limit"
    /\ IF kcount[c] >= ThreadLimit
       THEN /\ Return(c, StartResult(kapi[c], FALSE))
            /\ kheld' = HeldAfter({}, {c})
       ELSE /\ kpc' = [kpc EXCEPT ![c] = "monitor"]
            /\ kcount' = [kcount EXCEPT ![c] = 0]
            /\ UNCHANGED <<kres, kfull, kheld>>
    /\ UNCHANGED <<sync_mode, max_workers, baseThreads, softLimit, active_threads,
                   poolThreads, pqueue, thr, kapi, kraise, fnran>>
    /\ UNCHANGED <<lock, thread_results>>
    /\ UNCHANGED <<storeVars, streamVars, saveVars, tplVars, cfgVars>>

\* safe_monitor_thread_creation is asked (128-130); submit_deployment_task
\* raises RuntimeError on a refusal (214-216).
MonitorCheck(c) ==
    /\ kpc[c] = "monitor"
    /\ IF safe_monitor_thread_creation(ActiveCount, softLimit)
       THEN /\ Goto(c, IF kapi[c] = "submit_deployment_task" THEN "submit" ELSE "cleanup")
            /\ UNCHANGED kheld
       ELSE /\ Return(c, IF kapi[c] = "submit_deployment_task" THEN "raised"
                         ELSE StartResult(kapi[c], FALSE))
            /\ kheld' = HeldAfter({}, {c})
    /\ UNCHANGED <<sync_mode, max_workers, baseThreads, softLimit, active_threads,
                   poolThreads, pqueue, thr, kapi, kraise, fnran>>
    /\ UNCHANGED <<lock, thread_results>>
    /\ UNCHANGED <<storeVars, streamVars, saveVars, tplVars, cfgVars>>

\* self.cleanup_completed_threads() before the thread is created (133).
CallCleanup(c) ==
    /\ kpc[c] = "cleanup"
    /\ lock = CallerOf(c)
    /\ lock' = Released(lock)
    /\ active_threads' = cleanup_completed_threads(active_threads)
    /\ Goto(c, "register")
    /\ UNCHANGED <<sync_mode, max_workers, baseThreads, softLimit,
                   poolThreads, pqueue, thr, kapi, kraise, kheld, fnran>>
    /\ UNCHANGED thread_results
    /\ UNCHANGED <<storeVars, streamVars, saveVars, tplVars, cfgVars>>

\* The thread object is created and entered in active_threads (155-162).
Register(c) ==
    /\ kpc[c] = "register"
    /\ lock = CallerOf(c)
    /\ lock' = Released(lock)
    /\ thr' = [thr EXCEPT ![c] = "created"]
    /\ active_threads' = active_threads \cup {c}
    /\ Goto(c, "start")
    /\ UNCHANGED <<sync_mode, max_workers, baseThreads, softLimit,
                   poolThreads, pqueue, kapi, kraise, kheld, fnran>>
    /\ UNCHANGED thread_results
    /\ UNCHANGED <<storeVars, streamVars, saveVars, tplVars, cfgVars>>

\* thread.start() (164-166); RuntimeError "can't start new thread" leads to
\* the emergency cleanup (168-173); any other error only returns False
\* (174-179).
Start(c, outcome) ==
    /\ kpc[c] = "start"
    /\ CASE outcome = "started" ->
               /\ thr' = [thr EXCEPT ![c] = "running"]
               /\ Return(c, StartResult(kapi[c], TRUE))
               /\ kheld' = HeldAfter({}, {c})
         [] outcome = "cannot" ->
               /\ thr' = [thr EXCEPT ![c] = "unstarted"]
               /\ Goto(c, "emergency")
               /\ UNCHANGED kheld
         [] outcome = "other" ->
               /\ thr' = [thr EXCEPT ![c] = "unstarted"]
               /\ Return(c, StartResult(kapi[c], FALSE))
               /\ kheld' = HeldAfter({}, {c})
    /\ UNCHANGED <<sync_mode, max_workers, baseThreads, softLimit, active_threads,
                   poolThreads, pqueue, kapi, kraise, fnran>>
    /\ UNCHANGED <<lock, thread_results>>
    /\ UNCHANGED <<storeVars, streamVars, saveVars, tplVars, cfgVars>>

\* emergency_thread_cleanup (172-173, 181-196).
Emergency(c) ==
    /\ kpc[c] = "emergency"
    /\ lock = CallerOf(c)
    /\ lock' = Released(lock)
    /\ active_threads' = cleanup_completed_threads(active_threads)
    /\ Return(c, StartResult(kapi[c], FALSE))
    /\ kheld' = HeldAfter({}, {c})
    /\ UNCHANGED <<sync_mode, max_workers, baseThreads, softLimit,
                   poolThreads, pqueue, thr, kapi, kraise, fnran>>
    /\ UNCHANGED thread_results
    /\ UNCHANGED <<storeVars, streamVars, saveVars, tplVars, cfgVars>>

\* self.executor.submit(self._wrapped_task, ...) (219-221).  The executor
\* (76-79) starts a further worker thread when none is idle and fewer than
\* max_workers exist, and queues the task.
PoolRunning == {t \in Calls : thr[t] \in {"poolRunning", "record"}}

PoolSubmit(c) ==
    /\ kpc[c] = "submit"
    /\ pqueue' = Append(pqueue, c)
    /\ thr' = [thr EXCEPT ![c] = "queued"]
    /\ poolThreads' =
            IF poolThreads - Cardinality(PoolRunning) - Len(pqueue) <= 0 /\ poolThreads < max_workers
            THEN poolThreads + 1
            ELSE poolThreads
    /\ Return(c, "accepted")
    /\ kheld' = HeldAfter({}, {c})
    /\ UNCHANGED <<sync_mode, max_workers, baseThreads, softLimit, active_threads,
                   kapi, kraise, fnran>>
    /\ UNCHANGED <<lock, thread_results>>
    /\ UNCHANGED <<storeVars, streamVars, saveVars, tplVars, cfgVars>>

\* A worker thread of the executor takes the oldest queued task.
PoolTake(c) ==
    /\ pqueue # <<>>
    /\ Head(pqueue) = c
    /\ Cardinality(PoolRunning) < poolThreads
    /\ pqueue' = Tail(pqueue)
    /\ thr' = [thr EXCEPT ![c] = "poolRunning"]
    /\ UNCHANGED <<sync_mode, max_workers, baseThreads, softLimit, active_threads,
                   poolThreads, kpc, kapi, kraise, kcount, kres, kheld, kfull, fnran>>
    /\ UNCHANGED <<lock, thread_results>>
    /\ UNCHANGED <<storeVars, streamVars, saveVars, tplVars, cfgVars>>

\* The job function returns or raises in its thread: wrapped_target
\* (139-144) goes on to its finally block; a thread app.py started ends; in
\* the executor _wrapped_task goes on to record the result (234-242).
AfterFunction(api) ==
    CASE api \in {"safe_thread_start", "create_background_thread"} -> "finally"
      [] api = "submit_deployment_task" -> "record"
      [] OTHER -> "done"

FunctionEnd(c) ==
    /\ thr[c] \in {"running", "poolRunning"}
    /\ fnran' = [fnran EXCEPT ![c] = TRUE]
    /\ thr' = [thr EXCEPT ![c] = AfterFunction(kapi[c])]
    /\ kheld' = HeldAfter({c}, {})
    /\ UNCHANGED <<sync_mode, max_workers, baseThreads, softLimit, active_threads,
                   poolThreads, pqueue, kpc, kapi, kraise, kcount, kres, kfull>>
    /\ UNCHANGED <<lock, thread_results>>
    /\ UNCHANGED <<storeVars, streamVars, saveVars, tplVars, cfgVars>>

\* _wrapped_task records the result under the lock (234-235, 241-242) and
\* ends (236, 243-245); the worker of the executor is free again.
RecordResult(c) ==
    /\ thr[c] = "record"
    /\ lock = ThreadOf(c)
    /\ lock' = Released(lock)
    /\ thread_results' = [thread_results EXCEPT ![c] = TaskResult(kraise[c])]
    /\ thr' = [thr EXCEPT ![c] = "done"]
    /\ UNCHANGED <<sync_mode, max_workers, baseThreads, softLimit, active_threads,
                   poolThreads, pqueue, kpc, kapi, kraise, kcount, kres, kheld, kfull, fnran>>
    /\ UNCHANGED <<storeVars, streamVars, saveVars, tplVars, cfgVars>>

\* finally: the entry is deleted under the lock (145-149).
Finally(c) ==
    /\ thr[c] = "finally"
    /\ lock = ThreadOf(c)
    /\ lock' = Released(lock)
    /\ active_threads' = ReleaseEntry(active_threads, c)
    /\ thr' = [thr EXCEPT ![c] = "cleanup"]
    /\ UNCHANGED <<sync_mode, max_workers, baseThreads, softLimit,
                   poolThreads, pqueue, kpc, kapi, kraise, kcount, kres, kheld, kfull, fnran>>
    /\ UNCHANGED thread_results
    /\ UNCHANGED <<storeVars, streamVars, saveVars, tplVars, cfgVars>>

\* finally: self.cleanup_completed_threads() (151), then the thread ends.
ThreadCleanup(c) ==
    /\ thr[c] = "cleanup"
    /\ lock = ThreadOf(c)
    /\ lock' = Released(lock)
    /\ active_threads' = cleanup_completed_threads(active_threads)
    /\ thr' = [thr EXCEPT ![c] = "done"]
    /\ UNCHANGED <<sync_mode, max_workers, baseThreads, softLimit,
                   poolThreads, pqueue, kpc, kapi, kraise, kcount, kres, kheld, kfull, fnran>>
    /\ UNCHANGED thread_results
    /\ UNCHANGED <<storeVars, streamVars, saveVars, tplVars, cfgVars>>

CallStep(c) ==
    \/ InlineEnd(c)
    \/ RecordInline(c)
    \/ AcquireCaller(c)
    \/ AcquireThread(c)
    \/ RecordResult(c)
    \/ LimitCheck(c)
    \/ MonitorCheck(c)
    \/ CallCleanup(c)
    \/ Register(c)
    \/ \E outcome \in StartOutcomes : Start(c, outcome)
    \/ Emergency(c)
    \/ PoolSubmit(c)
    \/ PoolTake(c)
    \/ FunctionEnd(c)
    \/ Finally(c)
    \/ ThreadCleanup(c)

\* ------------------------------------------------- save_deployment_history
\* save_deployment_history (app.py:134-163) statement by statement, run by
\* request handlers that have just inserted a record (deploy_file 341-358,
\* run_shell_command, systemd_operation, deploy_sql 77-93).
KeepBackups == 10           \* app.py:155

SaveId(s) == MaxJobs + s

\* The file after open(DEPLOYMENT_HISTORY_FILE, 'w') (149), and after a
\* json.dump that stopped part-way: neither parses.
TruncatedFile == [kind |-> "truncated", valid |-> FALSE, data |-> json_dump(EmptyStore)]

\* A file holding bytes that are no text in the locale's encoding: reading it
\* raises UnicodeDecodeError, which is no json.JSONDecodeError.
UndecodableFile == [kind |-> "undecodable", valid |-> FALSE, data |-> json_dump(EmptyStore)]

\* os.path.exists(DEPLOYMENT_HISTORY_FILE) is false (62, 137).
NoFile == [kind |-> "absent", valid |-> FALSE, data |-> json_dump(EmptyStore)]

\* The names glob('deployment_history_*.json') can return (77, 154): the
\* backups named after the second they were made in (138-139) and the files
\* set aside as corrupt, named after the epoch second (71); a name is a
\* record [corrupt, stamp].

StampName(t) == [corrupt |-> FALSE, stamp |-> t]

CorruptName(t) == [corrupt |-> TRUE, stamp |-> t]

\* sorted() orders the names as strings: a digit sorts before the 'c' of
\* 'corrupt', and stamps of one width sort as numbers.
NameBefore(a, b) ==
    \/ ~a.corrupt /\ b.corrupt
    \/ a.corrupt = b.corrupt /\ a.stamp < b.stamp

\* open(backup_file, 'w') (142): a file of that name is replaced.
WithFile(b, name, content) ==
    [n \in (DOMAIN b) \cup {name} |-> IF n = name THEN content ELSE b[n]]

\* The backup file is named after the current second (138-139): a second
\* backup within the same second overwrites the first.
BackedUp(b, content, t) == WithFile(b, StampName(t), content)

WithoutFiles(b, names) == [n \in (DOMAIN b) \ names |-> b[n]]

\* backup_files[-10:] (156): the names with fewer than 10 names after them.
KeptByName(b) ==
    {n \in DOMAIN b : Cardinality({m \in DOMAIN b : NameBefore(n, m)}) < KeepBackups}

\* Only the last 10 files of the sorted list are kept (153-161).
Pruned(b) ==
    IF Cardinality(DOMAIN b) > KeepBackups
    THEN WithoutFiles(b, (DOMAIN b) \ KeptByName(b))
    ELSE b

\* The handler stores the new record (deploy_file 341-355).
SaveInsert(s) ==
    /\ spc[s] = "idle"
    /\ boot = "up"
    /\ s > 1 => spc[s - 1] # "idle"
    /\ deployments' = StorePut(deployments, SaveId(s), NewRecord("file"))
    /\ spc' = [spc EXCEPT ![s] = "backup"]
    /\ UNCHANGED <<histFile, backups, skeys>>
    /\ UNCHANGED <<now, boot, boots>>
    /\ UNCHANGED <<created, wtype, wpc, wout, wrc, werr, cpc, clears, creq, obs, streamVars, tmVars, tplVars, cfgVars>>

\* The current file is copied to a backup (136-147).
SaveBackup(s) ==
    /\ spc[s] = "backup"
    /\ backups' = IF histFile.kind = "absent" THEN backups ELSE BackedUp(backups, histFile, now)
    /\ spc' = [spc EXCEPT ![s] = "open"]
    /\ UNCHANGED <<deployments, histFile, skeys>>
    /\ UNCHANGED <<now, boot, boots>>
    /\ UNCHANGED <<created, wtype, wpc, wout, wrc, werr, cpc, clears, creq, obs, streamVars, tmVars, tplVars, cfgVars>>

\* open(DEPLOYMENT_HISTORY_FILE, 'w') truncates the file (149).
SaveOpen(s) ==
    /\ spc[s] = "open"
    /\ histFile' = TruncatedFile
    /\ spc' = [spc EXCEPT ![s] = "dump"]
    /\ UNCHANGED <<deployments, backups, skeys>>
    /\ UNCHANGED <<now, boot, boots>>
    /\ UNCHANGED <<created, wtype, wpc, wout, wrc, werr, cpc, clears, creq, obs, streamVars, tmVars, tplVars, cfgVars>>

\* json.dump starts to iterate over the store (150).
SaveDumpBegin(s) ==
    /\ spc[s] = "dump"
    /\ skeys' = [skeys EXCEPT ![s] = DOMAIN deployments]
    /\ spc' = [spc EXCEPT ![s] = "iter"]
    /\ UNCHANGED <<deployments, histFile, backups>>
    /\ UNCHANGED <<now, boot, boots>>
    /\ UNCHANGED <<created, wtype, wpc, wout, wrc, werr, cpc, clears, creq, obs, streamVars, tmVars, tplVars, cfgVars>>

\* json.dump ends (150) and the file is closed.  If a record was inserted
\* meanwhile the iteration raises "dictionary changed size during
\* iteration"; the handler at 162-163 logs it and the file keeps what was
\* written so far.  Otherwise the old backups are removed (153-161).
SaveDumpEnd(s) ==
    /\ spc[s] = "iter"
    /\ IF DOMAIN deployments = skeys[s]
       THEN /\ histFile' = SavedFile(deployments)
            /\ backups' = Pruned(backups)
       ELSE /\ histFile' = TruncatedFile
            /\ UNCHANGED backups
    /\ spc' = [spc EXCEPT ![s] = "returned"]
    /\ UNCHANGED <<deployments, skeys>>
    /\ UNCHANGED <<now, boot, boots>>
    /\ UNCHANGED <<created, wtype, wpc, wout, wrc, werr, cpc, clears, creq, obs, streamVars, tmVars, tplVars, cfgVars>>

SaveStep(s) ==
    \/ SaveInsert(s)
    \/ SaveBackup(s)
    \/ SaveOpen(s)
    \/ SaveDumpBegin(s)
    \/ SaveDumpEnd(s)

Saving(s) == spc[s] \in {"dump", "iter"}

\* A second passes.
Tick ==
    /\ now < MaxClock
    /\ now' = now + 1
    /\ UNCHANGED <<spc, skeys, backups, boot, boots, storeVars, streamVars, tmVars, tplVars, cfgVars>>

\* ------------------------------------------------------ loading at import
\* The names sorted(..., reverse=True) puts before `name` (77).
TriedBefore(b, name) == {m \in DOMAIN b : NameBefore(name, m)}

\* The first file of the reversed list that json.load accepts (79-87).
FirstParseable(b) ==
    {n \in DOMAIN b : b[n].kind = "json" /\ \A m \in TriedBefore(b, n) : b[m].kind # "json"}

\* The store the loop over the backup files leaves (79-87): the content of
\* the first file that parses, or the empty dict of line 59.
FromBackups(b) ==
    IF FirstParseable(b) = {} THEN EmptyStore
    ELSE json_load(b[CHOOSE n \in FirstParseable(b) : TRUE].data)

\* The import of app.py (59-95).  A file that parses becomes the store (66).
\* A file json.load rejects with JSONDecodeError is renamed (68-74).  Any
\* other error of reading it is logged at 94-95 and the file stays.  If there
\* is no file the backups are tried, newest name first (75-87), and with no
\* backup at all an empty file is written (88-93).
LoadHistory ==
    /\ boot = "down"
    /\ boot' = "up"
    /\ boots' = boots + 1
    /\ CASE histFile.kind = "json" ->
               /\ deployments' = json_load(histFile.data)
               /\ UNCHANGED <<histFile, backups>>
         [] histFile.kind = "truncated" ->
               /\ deployments' = EmptyStore
               /\ backups' = WithFile(backups, CorruptName(now), histFile)
               /\ histFile' = NoFile
         [] histFile.kind = "undecodable" ->
               /\ deployments' = EmptyStore
               /\ UNCHANGED <<histFile, backups>>
         [] histFile.kind = "absent" ->
               /\ deployments' = FromBackups(backups)
               /\ histFile' = IF DOMAIN backups = {} THEN SavedFile(EmptyStore) ELSE histFile
               /\ UNCHANGED backups
    /\ UNCHANGED <<spc, skeys, now>>
    /\ UNCHANGED <<created, wtype, wpc, wout, wrc, werr, cpc, clears, creq, obs, streamVars, tmVars, tplVars, cfgVars>>

\* The process ends, at any point of a save, and its memory is gone; the
\* handlers it was serving do not go on.
Restart ==
    /\ boot = "up"
    /\ boots < MaxBoots
    /\ boot' = "down"
    /\ deployments' = EmptyStore
    /\ spc' = [s \in Savers |-> IF spc[s] = "idle" THEN "idle" ELSE "returned"]
    /\ UNCHANGED <<histFile, skeys, backups, now, boots>>
    /\ UNCHANGED <<created, wtype, wpc, wout, wrc, werr, cpc, clears, creq, obs, streamVars, tmVars, tplVars, cfgVars>>

\* ------------------------------------------------- template deployments
\* routes/deploy_template.py keeps its own dict, active_deployments (20),
\* and writes the history file of app.py by itself when a run ends.
TemplateId == -1            \* deploy_template.py:752  the uuid4 of the template run
TemplateLine(k) == <<"template", k>>
NoTemplates == [k \in {} |-> [status |-> "initializing", logs |-> <<>>]]

\* deploy_template (734-790): the record is stored, the thread is started.
TemplateSubmit(steps) ==
    /\ tpc = "none"
    /\ active_deployments' = [k \in {TemplateId} |-> [status |-> "initializing", logs |-> <<>>]]
    /\ tsteps' = steps
    /\ tpc' = "start"
    /\ UNCHANGED <<tnext, tdone, tread, tlogFile, outputLen>>
    /\ UNCHANGED <<storeVars, streamVars, tmVars, saveVars, cfgVars>>

\* run_template_deployment (646-656): deployment['status'] = 'running'.
TemplateStart ==
    /\ tpc = "start"
    /\ active_deployments' = [active_deployments EXCEPT ![TemplateId].status = "running"]
    /\ tpc' = "body"
    /\ UNCHANGED <<tsteps, tnext, tdone, tread, tlogFile, outputLen>>
    /\ UNCHANGED <<storeVars, streamVars, tmVars, saveVars, cfgVars>>

\* log_message (26-35) appends the line to the record and save_log_to_file
\* (37-47) appends it to the .log file of the run; the history file is not
\* written.
TemplateLog ==
    /\ tpc = "body"
    /\ Len(active_deployments[TemplateId].logs) < MaxOutput
    /\ active_deployments' = [active_deployments EXCEPT
           ![TemplateId].logs = Append(@, TemplateLine(Len(@) + 1))]
    /\ tlogFile' = Append(tlogFile, TemplateLine(Len(tlogFile) + 1))
    /\ UNCHANGED <<tpc, tsteps, tnext, tdone, tread, outputLen>>
    /\ UNCHANGED <<storeVars, streamVars, tmVars, saveVars, cfgVars>>

\* sorted(steps, key=lambda x: x.get('order', 0)) (683): a stable sort by
\* the order value.
InsertStep(t, x) ==
    LET k == Cardinality({i \in 1..Len(t) : t[i] <= x})
    IN  SubSeq(t, 1, k) \o <<x>> \o SubSeq(t, k + 1, Len(t))

RECURSIVE SortedSteps(_)
SortedSteps(steps) ==
    IF steps = <<>> THEN <<>>
    ELSE InsertStep(SortedSteps(SubSeq(steps, 1, Len(steps) - 1)), steps[Len(steps)])

AfterStepGoesOn(ok) == "body"

\* What follows a step (689-698): the loop goes on after a success and is
\* left after a failure.
AfterStep(ok) == IF ok THEN "body" ELSE "final"

\* One turn of the for loop (683-698): execute_deployment_step (598-644)
\* returns True or False, never raises; a failure sets 'failed' and breaks.
TemplateRunStep(ok) ==
    /\ tpc = "body"
    /\ tnext <= Len(tsteps)
    /\ tdone' = Append(tdone, [order |-> SortedSteps(tsteps)[tnext], ok |-> ok])
    /\ tnext' = tnext + 1
    /\ tpc' = AfterStep(ok)
    /\ active_deployments' =
           IF ok THEN active_deployments
           ELSE [active_deployments EXCEPT ![TemplateId].status = "failed"]
    /\ UNCHANGED <<tsteps, tread, tlogFile, outputLen>>
    /\ UNCHANGED <<storeVars, streamVars, tmVars, saveVars, cfgVars>>

\* A statement before the loop raises (658-683: template.get, join, the
\* comparison of sorted()): the handler sets 'failed' (721-731).
TemplateRaise ==
    /\ tpc = "body"
    /\ tnext = 1
    /\ active_deployments' = [active_deployments EXCEPT ![TemplateId].status = "failed"]
    /\ tpc' = "read"
    /\ UNCHANGED <<tsteps, tnext, tdone, tread, tlogFile, outputLen>>
    /\ UNCHANGED <<storeVars, streamVars, tmVars, saveVars, cfgVars>>

\* The loop is over (700-715): a run that is still 'running' becomes
\* 'success' (704-705), a failed one stays 'failed'.
TemplateFinish ==
    /\ \/ tpc = "body" /\ tnext > Len(tsteps)
       \/ tpc = "final"
    /\ active_deployments' = [active_deployments EXCEPT
           ![TemplateId].status = IF @ = "running" THEN "success" ELSE @]
    /\ tpc' = "read"
    /\ UNCHANGED <<tsteps, tnext, tdone, tread, tlogFile, outputLen>>
    /\ UNCHANGED <<storeVars, streamVars, tmVars, saveVars, cfgVars>>

\* save_deployment_to_history (49-66) reads the history file into a local
\* dict: {} when there is no file or json.load raises JSONDecodeError; any
\* other error leaves the function through its handler (107-108).
TemplateRead ==
    /\ tpc = "read"
    /\ CASE histFile.kind = "json" ->
               /\ tread' = json_load(histFile.data)
               /\ tpc' = "write"
         [] histFile.kind = "undecodable" ->
               /\ tpc' = "unsaved"
               /\ UNCHANGED tread
         [] OTHER ->
               /\ tread' = EmptyStore
               /\ tpc' = "write"
    /\ UNCHANGED <<active_deployments, tsteps, tnext, tdone, tlogFile, outputLen>>
    /\ UNCHANGED <<storeVars, streamVars, tmVars, saveVars, cfgVars>>

TemplateEntryAtStart(rec) ==
    [type |-> "template_deployment", status |-> "initializing", logs |-> rec.logs, tsIso |-> FALSE]

\* The entry of the run as save_deployment_to_history builds it (69-86).
TemplateEntry(rec) ==
    [type |-> "template_deployment", status |-> rec.status, logs |-> rec.logs, tsIso |-> FALSE]

\* save_deployment_to_history (84-91): the local dict plus the entry of the
\* run is dumped over the history file.
TemplateWrite ==
    /\ tpc = "write"
    /\ histFile' = SavedFile(StorePut(tread, TemplateId, TemplateEntry(active_deployments[TemplateId])))
    /\ tpc' = "done"
    /\ UNCHANGED <<active_deployments, tsteps, tnext, tdone, tread, tlogFile, outputLen>>
    /\ UNCHANGED <<deployments, created, wtype, wpc, wout, wrc, werr, cpc, clears, creq, obs>>
    /\ UNCHANGED <<streamVars, tmVars, saveVars, cfgVars>>

\* The 'order' values of the steps of a request.
StepLists ==
    UNION {[1..n -> 1..MaxSteps] : n \in 0..MaxSteps}

TemplateStep ==
    \/ \E steps \in StepLists : TemplateSubmit(steps)
    \/ TemplateStart
    \/ TemplateLog
    \/ \E ok \in BOOLEAN : TemplateRunStep(ok)
    \/ TemplateRaise
    \/ TemplateFinish
    \/ TemplateRead
    \/ TemplateWrite

\* ------------------------------------------------ the production executor
\* config.py:9-48 ProductionThreadingConfig: one class-level executor,
\* created on demand under a lock with a second test inside the lock.
ExecutorReset(e) == <<>>

\* shutdown_executor (42-48) calls cls._executor.shutdown(wait=True,
\* timeout=30); ThreadPoolExecutor.shutdown takes no `timeout`, the call
\* raises TypeError before the pool is touched and the assignment
\* cls._executor = None (48) is not reached.
ExecutorAfterShutdown(e) == e

\* get_executor (29-39), one bytecode-level step at a time.
GetExecutor(g) ==
    /\ \/ /\ xpc[g] = "idle"
          /\ xpc' = [xpc EXCEPT ![g] = "test"]
          /\ UNCHANGED <<executor, xlock, xmade, xgot>>
       \/ /\ xpc[g] = "test"                         \* if cls._executor is None (31)
          /\ xpc' = [xpc EXCEPT ![g] = IF executor = <<>> THEN "acquire" ELSE "return"]
          /\ UNCHANGED <<executor, xlock, xmade, xgot>>
       \/ /\ xpc[g] = "acquire"                      \* with cls._lock (32)
          /\ xlock = <<>>
          /\ xlock' = <<g>>
          /\ xpc' = [xpc EXCEPT ![g] = "retest"]
          /\ UNCHANGED <<executor, xmade, xgot>>
       \/ /\ xpc[g] = "retest"                       \* if cls._executor is None (33)
          /\ xpc' = [xpc EXCEPT ![g] = IF executor = <<>> THEN "create" ELSE "release"]
          /\ UNCHANGED <<executor, xlock, xmade, xgot>>
       \/ /\ xpc[g] = "create"                       \* cls._executor = ThreadPoolExecutor(...) (35-38)
          /\ xmade' = xmade + 1
          /\ executor' = <<xmade + 1>>
          /\ xpc' = [xpc EXCEPT ![g] = "release"]
          /\ UNCHANGED <<xlock, xgot>>
       \/ /\ xpc[g] = "release"                      \* the end of the with block
          /\ xlock' = <<>>
          /\ xpc' = [xpc EXCEPT ![g] = "return"]
          /\ UNCHANGED <<executor, xmade, xgot>>
       \/ /\ xpc[g] = "return"                       \* return cls._executor (39)
          /\ xgot' = [xgot EXCEPT ![g] = executor]
          /\ xpc' = [xpc EXCEPT ![g] = "done"]
          /\ UNCHANGED <<executor, xlock, xmade>>
    /\ UNCHANGED xspc
    /\ UNCHANGED <<storeVars, streamVars, tmVars, saveVars, tplVars>>

\* shutdown_executor (42-48), without the lock.
ShutdownExecutor(h) ==
    /\ xspc[h] = "idle"
    /\ IF executor = <<>>
       THEN /\ xspc' = [xspc EXCEPT ![h] = "done"]
            /\ UNCHANGED executor
       ELSE /\ xspc' = [xspc EXCEPT ![h] = "raised"]
            /\ executor' = ExecutorAfterShutdown(executor)
    /\ UNCHANGED <<xlock, xmade, xpc, xgot>>
    /\ UNCHANGED <<storeVars, streamVars, tmVars, saveVars, tplVars>>

\* The class as defined (25-26): no executor, the lock free.
ConfigIdle ==
    /\ executor = <<>>
    /\ xlock = <<>>
    /\ xmade = 0
    /\ xpc = [g \in (1..MaxGetters) |-> "idle"]
    /\ xgot = [g \in (1..MaxGetters) |-> <<>>]
    /\ xspc = [h \in (1..MaxShutdowns) |-> "idle"]

\* ------------------------------------------------------------ specification
\* The state after the module has been imported (app.py:59-95): on a fresh
\* installation no history file is found and an empty one is written
\* (89-93); otherwise the store is the content of the history file (66), here
\* one finished file deployment of an earlier run of the process.
NoResponse == [found |-> FALSE, status |-> "none", logs |-> <<>>]

LoadedStore ==
    StorePut(EmptyStore, LoadedId,
             [type |-> "file", status |-> "success", logs |-> <<SuccessLine>>, tsIso |-> FALSE])

JobsInit ==
    /\ created = {}
    /\ wtype = [j \in JobIds |-> "none"]
    /\ wpc = [j \in JobIds |-> "none"]
    /\ wout = [j \in JobIds |-> 0]
    /\ wrc = [j \in JobIds |-> 0]
    /\ werr = [j \in JobIds |-> FALSE]
    /\ cpc = "idle"
    /\ clears = 0
    /\ creq = [kind |-> "none", older |-> {}]
    /\ obs = [j \in AllIds |-> NoResponse]

StoreInit ==
    /\ deployments \in {EmptyStore, LoadedStore}
    /\ histFile = SavedFile(deployments)
    /\ JobsInit

StreamInit ==
    /\ rpc = [r \in Readers |-> "idle"]
    /\ rjob = [r \in Readers |-> LoadedId]
    /\ rcap = [r \in Readers |-> Unbound]
    /\ ridx = [r \in Readers |-> 0]
    /\ rlast = [r \in Readers |-> 0]
    /\ rsent = [r \in Readers |-> <<>>]
    /\ rmiss = [r \in Readers |-> FALSE]
    /\ rseen = [r \in Readers |-> <<>>]

\* The manager after __init__ (58-96), before any call.
ManagerIdle ==
    /\ active_threads = {}
    /\ poolThreads = 0
    /\ pqueue = <<>>
    /\ thr = [c \in Calls |-> "none"]
    /\ kpc = [c \in Calls |-> "idle"]
    /\ kapi = [c \in Calls |-> "none"]
    /\ kraise = [c \in Calls |-> FALSE]
    /\ kcount = [c \in Calls |-> 0]
    /\ kres = [c \in Calls |-> "none"]
    /\ kheld = [c \in Calls |-> {}]
    /\ kfull = [c \in Calls |-> FALSE]
    /\ fnran = [c \in Calls |-> FALSE]
    /\ lock = NoOwner
    /\ thread_results = [c \in Calls |-> "none"]

\* thread_manager = ThreadManager(max_workers=1) (357) in a server that has
\* its main thread only.
ManagerInit ==
    /\ sync_mode = TRUE
    /\ max_workers = 1
    /\ baseThreads = 1
    /\ softLimit = -1
    /\ ManagerIdle

SaveInit ==
    /\ spc = [s \in Savers |-> "idle"]
    /\ skeys = [s \in Savers |-> {}]
    /\ backups = <<>>
    /\ now = KeepBackups + 2
    /\ boot = "up"
    /\ boots = 1

\* No template deployment has been requested; the command of a job prints
\* n lines.
TemplateIdle(n) ==
    /\ active_deployments = NoTemplates
    /\ tpc = "none"
    /\ tsteps = <<>>
    /\ tnext = 1
    /\ tdone = <<>>
    /\ tread = EmptyStore
    /\ tlogFile = <<>>
    /\ outputLen = n

Init == StoreInit /\ StreamInit /\ ManagerInit /\ SaveInit /\ TemplateIdle(MaxLines) /\ ConfigIdle

Next ==
    \/ \E j \in JobIds, t \in JobTypes : SubmitJob(j, t)
    \/ \E j \in JobIds : JobStep(j)
    \/ \E kind \in {"all", "older", "neg"}, S \in SUBSET AllIds : ClearPurge(kind, S)
    \/ ClearSave
    \/ GetHistory
    \/ \E j \in AllIds : GetLogs(j)

Spec == Init /\ [][Next]_vars

\* The jobs, the purge and the history read, with clients that stream a log.
NextStream ==
    \/ \E j \in JobIds, t \in JobTypes : SubmitJob(j, t)
    \/ \E j \in JobIds : JobStep(j)
    \/ \E kind \in {"all", "older", "neg"}, S \in SUBSET AllIds : ClearPurge(kind, S)
    \/ ClearSave
    \/ GetHistory
    \/ \E r \in Readers, j \in AllIds : StreamOpen(r, j)
    \/ \E r \in Readers : StreamStep(r)

SpecStream == Init /\ [][NextStream]_vars

\* The manager as it is built (sync_mode True), and managers with sync_mode
\* False of several sizes in servers of several sizes, one of them under a
\* process limit of 3.
ManagerConfigs ==
    {[sync |-> TRUE, workers |-> 1, base |-> 1, soft |-> -1]}
    \cup {[sync |-> FALSE, workers |-> w, base |-> b, soft |-> -1] : w \in 1..MaxWorkers, b \in 1..MaxBase}
    \cup {[sync |-> FALSE, workers |-> 1, base |-> MaxBase, soft |-> 3]}

InitTM ==
    /\ StoreInit /\ deployments = EmptyStore
    /\ StreamInit
    /\ SaveInit
    /\ TemplateIdle(MaxLines)
    /\ ConfigIdle
    /\ \E cfg \in ManagerConfigs :
            /\ sync_mode = cfg.sync
            /\ max_workers = cfg.workers
            /\ baseThreads = cfg.base
            /\ softLimit = cfg.soft
    /\ ManagerIdle

NextTM ==
    \/ \E c \in Calls, api \in Apis, raises \in BOOLEAN : CallBegin(c, api, raises)
    \/ \E c \in Calls : CallStep(c)

SpecTM == InitTM /\ [][NextTM]_vars

\* Managers with sync_mode on or off in server processes of 1 to MaxThreads
\* threads, under every kind of process limit.
SoftLimits == {MonitoringFails, LimitsUnreadable, -1, 3, 10, 25}

InitMonitor ==
    /\ StoreInit /\ deployments = EmptyStore
    /\ StreamInit
    /\ SaveInit
    /\ TemplateIdle(MaxLines)
    /\ ConfigIdle
    /\ sync_mode \in BOOLEAN
    /\ max_workers = 1
    /\ baseThreads \in 1..MaxThreads
    /\ softLimit \in SoftLimits
    /\ ManagerIdle

SpecMonitor == InitMonitor /\ [][NextTM]_vars

\* Callers of get_executor and of shutdown_executor, in any interleaving.
NextConfig ==
    \/ \E g \in (1..MaxGetters) : GetExecutor(g)
    \/ \E h \in (1..MaxShutdowns) : ShutdownExecutor(h)

SpecConfig == Init /\ [][NextConfig]_vars

\* Request handlers that insert a record and save, concurrently.
NextSave ==
    \/ \E s \in Savers : SaveStep(s)
    \/ Tick

SpecSave == Init /\ [][NextSave]_vars

\* A store of an earlier run whose job failed after one line of output.
OlderStore ==
    StorePut(EmptyStore, LoadedId,
             [type |-> "file", status |-> "failed", logs |-> <<OutLine(1), ErrorLine>>, tsIso |-> TRUE])

\* The log directory earlier runs left: n backups, one a second, the newest
\* of them copied while the file was being rewritten if `torn`, and a file
\* set aside as corrupt before them if `quarantined`.
Directory(n, torn, quarantined) ==
    [name \in {StampName(t) : t \in 2..(n + 1)} \cup (IF quarantined THEN {CorruptName(1)} ELSE {}) |->
        IF name.corrupt THEN TruncatedFile
        ELSE IF name.stamp = n + 1 THEN (IF torn THEN TruncatedFile ELSE SavedFile(LoadedStore))
        ELSE SavedFile(OlderStore)]

Directories ==
    {Directory(n, torn, q) : n \in {0, KeepBackups}, torn \in BOOLEAN, q \in BOOLEAN}

\* The process is started over a log directory of earlier runs, serves
\* requests that insert and save, and is restarted.
InitDir ==
    /\ deployments = EmptyStore
    /\ histFile \in {NoFile, TruncatedFile, UndecodableFile, SavedFile(LoadedStore), SavedFile(OlderStore)}
    /\ JobsInit
    /\ StreamInit
    /\ ManagerInit
    /\ spc = [s \in Savers |-> "idle"]
    /\ skeys = [s \in Savers |-> {}]
    /\ backups \in Directories
    /\ now = KeepBackups + 2
    /\ boot = "down"
    /\ boots = 0
    /\ TemplateIdle(MaxLines)
    /\ ConfigIdle

NextDir ==
    \/ LoadHistory
    \/ Restart
    \/ Tick
    \/ \E s \in Savers : SaveStep(s)

SpecDir == InitDir /\ [][NextDir]_vars

\* The jobs of app.py beside a template deployment, both writing the
\* history file; the commands print up to MaxOutput lines.
InitTemplate ==
    StoreInit /\ StreamInit /\ ManagerInit /\ SaveInit /\ TemplateIdle(MaxOutput) /\ ConfigIdle

NextTemplate ==
    \/ \E j \in JobIds, t \in JobTypes : SubmitJob(j, t)
    \/ \E j \in JobIds : JobStep(j)
    \/ TemplateStep

SpecTemplate == InitTemplate /\ [][NextTemplate]_vars

\* A template deployment on its own.
SpecSteps == InitTemplate /\ [][TemplateStep]_vars

\* ------------------------------------------------------------------ claims
Last(s) == s[Len(s)]

\* C1: every later read of a job's status is at or after the status an
\* earlier read returned, in the order pending -> running -> success|failed.
C1_StatusNeverRegresses ==
    \A j \in DOMAIN deployments :
        obs[j].found => StatusRank(deployments[j].status) >= StatusRank(obs[j].status)

\* C2: once a job has reached a terminal status, a stream of its log that has
\* ended has delivered every line of the log from the first one, in order and
\* once each, and then the terminal status as its last event.
C2_StreamDeliversAll ==
    \A r \in Readers :
        (/\ StreamEnded(r)
         /\ rcap[r].bound /\ ~rcap[r].stale
         /\ rjob[r] \in DOMAIN deployments
         /\ rjob[r] \in JobIds => JobReturned(rjob[r])
         /\ deployments[rjob[r]].status \in TerminalStatus)
        => /\ MessageLines(rsent[r]) = deployments[rjob[r]].logs
           /\ Last(rsent[r]) = StatusEvent(deployments[rjob[r]].status)

\* C3: whenever no save is writing the history file, the file holds a
\* complete, parseable store.
C3_SnapshotParseable ==
    (\A s \in Savers : ~Saving(s)) => histFile.valid

\* C4: with synchronous mode off, the job functions that safe_thread_start
\* has started and that execute at the same time are never more than
\* max_workers.
C4_AtMostMaxWorkers ==
    ~sync_mode =>
        Cardinality({c \in Executing : kapi[c] \in {"safe_thread_start", "create_background_thread"}})
            <= max_workers

\* C5: with synchronous mode off, a submit made while max_workers functions
\* are executing, none of which returns during the call, is not accepted.
C5_FullManagerRejects ==
    \A c \in Calls :
        (/\ ~sync_mode
         /\ kapi[c] \in {"safe_thread_start", "create_background_thread"}
         /\ kpc[c] = "returned") => ~kfull[c]

\* C6: in synchronous mode every submit that has returned was accepted, and
\* its function had run to the end.
C6_SyncAlwaysAccepts ==
    \A c \in Calls :
        (sync_mode /\ kapi[c] \in ManagedApis /\ kpc[c] = "returned")
            => (kres[c] = "accepted" /\ fnran[c])

\* C7: a job whose function raised ends failed with the error as the last
\* line of its log, and is not left running once the function has stopped.
C7_RaisedJobEndsFailed ==
    \A j \in JobIds \cap DOMAIN deployments :
        (JobReturned(j) /\ werr[j]) =>
            /\ deployments[j].status = "failed"
            /\ deployments[j].logs # <<>>
            /\ Last(deployments[j].logs) = ExceptionLine

\* C8: an error raised inside the job function does not come out of the
\* submit call.
C8_ErrorStaysInside ==
    \A c \in Calls :
        (kapi[c] \in ManagedApis /\ fnran[c] /\ kraise[c]) => kres[c] # "raised"

\* C9: once the thread of an admitted function has ended, whether the
\* function returned or raised, active_threads holds no entry for it; when
\* every call has returned and every thread has ended, active_threads holds
\* no entry of any admitted execution.
C9_SlotReleased ==
    /\ \A c \in Calls : thr[c] = "done" => c \notin active_threads
    /\ (\A c \in Calls : kpc[c] \in {"idle", "returned"} /\ thr[c] \in {"none", "done", "unstarted"})
            => active_threads \subseteq {c \in Calls : thr[c] = "unstarted"}

\* A function started through safe_thread_start raised and its thread has
\* ended, after a later call had registered its own thread.
C9_Witness ==
    \E c \in Calls :
        /\ ~sync_mode
        /\ kapi[c] = "safe_thread_start" /\ kraise[c] /\ fnran[c] /\ thr[c] = "done"
        /\ \E d \in Calls : d # c /\ thr[d] = "done" /\ kapi[d] \in {"safe_thread_start", "create_background_thread"}

\* C10: the log returned by an earlier read is a prefix of the log any
\* later read returns.
C10_LogPrefixConsistent ==
    \A j \in DOMAIN deployments :
        obs[j].found => IsPrefix(obs[j].logs, deployments[j].logs)

\* C11: once a job's status is success or failed, no step changes its status
\* or its log while the job stays in the store.
C11_TerminalImmutable ==
    [][\A j \in (DOMAIN deployments) \cap (DOMAIN deployments') :
            deployments[j].status \in TerminalStatus
                => /\ deployments'[j].status = deployments[j].status
                   /\ deployments'[j].logs = deployments[j].logs]_vars

\* C12: a step a job function takes while its id is absent from the store
\* never raises out of the function.
C12_AbsentJobNoRaise ==
    [][\A j \in JobIds :
            (j \notin DOMAIN deployments /\ wpc[j] # "crashed") => wpc'[j] # "crashed"]_vars

LoadsUnparseable ==
    boot = "down" /\ boot' = "up" /\ histFile.kind \in {"truncated", "undecodable"}

\* C14: loading over a canonical file that does not parse, whatever the
\* failure, yields an empty store and renames the file to a corrupt name that
\* keeps its content.
C14_UnparseableQuarantined ==
    [][LoadsUnparseable =>
            /\ deployments' = EmptyStore
            /\ histFile' = NoFile
            /\ CorruptName(now) \in DOMAIN backups'
            /\ backups'[CorruptName(now)] = histFile]_vars

\* C15: when the canonical file does not parse at load, the loaded store is
\* the content of the newest backup that parses, and empty only if none does.
C15_FallsBackToBackup ==
    [][LoadsUnparseable => deployments' = FromBackups(backups)]_vars

KeptByCreation(b) ==
    {n \in DOMAIN b : Cardinality({m \in DOMAIN b : m.stamp > n.stamp}) < KeepBackups}

\* C17: a save that completes leaves at most 10 files matching the backup
\* pattern, the 10 created last, corrupt files included.
C17_KeepsNewestTen ==
    [][(\E s \in Savers : spc[s] = "iter" /\ spc'[s] = "returned" /\ histFile'.kind = "json")
            => /\ Cardinality(DOMAIN backups') <= KeepBackups
               /\ DOMAIN backups' = KeptByCreation(backups)]_vars

\* C18: no step changes the creation timestamp of a record that stays in
\* the store, a read of the history included.
C18_TimestampImmutable ==
    [][\A j \in (DOMAIN deployments) \cap (DOMAIN deployments') :
            deployments'[j].tsIso = deployments[j].tsIso]_vars

\* The lines job j's function has appended when it returns.
LinesAppended(j) ==
    [i \in 1..(wout[j] + 1) |->
        IF i <= wout[j] THEN OutLine(i) ELSE FinalLine(wtype[j], wrc[j])]

\* C19: a job whose function appended its lines and returned normally, nothing
\* having raised inside it and no one else having written to the job, has
\* status success and a log that is exactly those lines in order.
C19_NormalReturnIsSuccess ==
    \A j \in JobIds \cap DOMAIN deployments :
        (wpc[j] = "done" /\ ~werr[j])
            => /\ deployments[j].status = "success"
               /\ deployments[j].logs = LinesAppended(j)

\* C20: a stream that found its job in the store and took hold of the record,
\* and whose job function has returned, does not end by an error, and when it
\* has ended its last event is the terminal status marker, also if the record
\* was purged while the stream was polling.
C20_StreamEndsWithMarker ==
    \A r \in Readers :
        (/\ StreamEnded(r) /\ rcap[r].bound
         /\ rjob[r] \in JobIds => JobReturned(rjob[r]))
        => /\ rpc[r] = "done"
           /\ rsent[r] # <<>>
           /\ \E st \in TerminalStatus : Last(rsent[r]) = StatusEvent(st)

\* C21: the list indices of the lines one stream has delivered, through its
\* replay and all its polling turns, are strictly increasing, so no index is
\* delivered twice.
C21_IndicesIncrease ==
    \A r \in Readers :
        \A i \in 1..Len(rseen[r]), k \in 1..Len(rseen[r]) :
            i < k => rseen[r][i] < rseen[r][k]

\* A stream delivered a line in its replay and another in a polling turn.
C21_Witness ==
    \E r \in Readers :
        /\ ridx[r] >= 1 /\ Len(rseen[r]) > ridx[r]
        /\ rpc[r] = "done"

\* C22: when a job function has returned and its record, still in the store,
\* has the terminal status the function gave it, a save made since then has
\* put the record with that status in the history file, on the normal path,
\* the early return and the exception handlers alike.
C22_TerminalStatusSaved ==
    \A j \in JobIds \cap DOMAIN deployments :
        (wpc[j] = "done" /\ deployments[j].status \in TerminalStatus)
            => /\ histFile.valid
               /\ j \in DOMAIN json_load(histFile.data)
               /\ json_load(histFile.data)[j].status = deployments[j].status

\* A job function that raised has set failed in its handler and returned.
C22_Witness ==
    \E j \in JobIds \cap DOMAIN deployments :
        /\ wpc[j] = "done" /\ werr[j]
        /\ deployments[j].status = "failed"

\* C23: the copy a save makes of the canonical file before overwriting it
\* leaves every backup file of an earlier save as it was, also within the
\* same second.
C23_BackupKeepsEarlier ==
    [][(\E s \in Savers : spc[s] = "backup" /\ spc'[s] = "open")
            => \A n \in DOMAIN backups :
                    n \in DOMAIN backups' /\ backups'[n] = backups[n]]_vars

\* C24: every step that changes the store, a creation, an append, a status
\* change or a purge, is taken while the lock of the thread manager is held.
C24_MutationsUnderLock ==
    [][deployments' # deployments => lock # NoOwner]_vars

\* C25: a safe_thread_start whose thread could not be started, whatever the
\* error, has returned False and active_threads holds no entry for the
\* thread that never started.
C25_FailedStartLeavesNoEntry ==
    \A c \in Calls :
        (/\ kapi[c] = "safe_thread_start"
         /\ kpc[c] = "returned" /\ thr[c] = "unstarted")
        => /\ kres[c] = "rejected"
           /\ c \notin active_threads

\* C27: whoever owns the manager's lock is not executing a job function:
\* neither a caller that runs the function inline nor a thread that runs it.
C27_LockNotHeldAcrossJob ==
    \A c \in Executing : lock \notin {CallerOf(c), ThreadOf(c)}

\* A thread deletes its entry under the lock while the function of another
\* call is executing.
C27_Witness ==
    \E c \in Executing, d \in Calls :
        /\ d # c
        /\ lock = ThreadOf(d) /\ thr[d] = "finally"


\* C30: a job that ended with status success ran no command that exited
\* with a non-zero return code: whenever a job function has returned and
\* its record says success, the return code of its command was 0.
C30_SuccessOnlyIfAllZero ==
    \A j \in JobIds \cap DOMAIN deployments :
        (wpc[j] = "done" /\ ~werr[j] /\ deployments[j].status = "success")
            => wrc[j] = 0


\* C29: every record whose status is running has a worker that executes
\* it.  A process that has just been started has no worker yet, so the
\* store it loads from the log directory holds no record in status running.
C29_LoadedJobsNotRunning ==
    [][(boot = "down" /\ boot' = "up")
        => \A k \in DOMAIN deployments' : deployments'[k].status # "running"]_vars


\* The number of log lines the history file holds for a job.
SavedLines(k) ==
    IF histFile.valid /\ k \in DOMAIN histFile.data
    THEN Len(json_load(histFile.data)[k].logs)
    ELSE 0

\* C26: while a job is running, every Nth append to its log saves a
\* snapshot of the store, N a small constant: the history file never lacks
\* MaxOutput or more of the lines a running job has logged.
C26_SnapshotEveryNth ==
    /\ \A j \in JobIds \cap DOMAIN deployments :
           wpc[j] = "body" => Len(deployments[j].logs) - SavedLines(j) < MaxOutput
    /\ tpc = "body" =>
           Len(active_deployments[TemplateId].logs) - SavedLines(TemplateId) < MaxOutput

\* C28: once save_deployment_to_history has written the entry of a finished
\* template deployment into the history file, the entry stays in the file
\* through every later save of the main application.
C28_TemplateEntryStays ==
    tpc = "done" => /\ histFile.valid
                    /\ TemplateId \in DOMAIN histFile.data


\* C31: a job removed by clear_deployment_history never reappears in the
\* store: the only ids a step adds to the store are the fresh ids of new
\* submissions, never an id that has been in the store before.
C31_PurgedNeverReappears ==
    [][\A k \in (DOMAIN deployments') \ (DOMAIN deployments) :
            k \in JobIds /\ k \notin created]_vars


\* C32: a clear request with days > 0 removes exactly the jobs older than
\* its cutoff and keeps the others, with days = 0 it removes every job, and
\* with days < 0 it is rejected and changes nothing; an accepted request
\* goes on to save the purged store.
C32_ClearRemovesExactly ==
    [][clears' # clears =>
          CASE creq'.kind = "older" ->
                  /\ deployments' = StoreRemove(deployments, creq'.older)
                  /\ cpc' = "save"
            [] creq'.kind = "all" ->
                  /\ deployments' = EmptyStore
                  /\ cpc' = "save"
            [] OTHER ->
                  /\ deployments' = deployments
                  /\ cpc' = "idle"]_vars


C34_StepsInOrderUntilFailure ==
    /\ Len(tdone) <= Len(tsteps)
    /\ \A i \in DOMAIN tdone :
           /\ Cardinality({k \in DOMAIN tsteps : tsteps[k] < tdone[i].order}) < i
           /\ Cardinality({k \in DOMAIN tsteps : tsteps[k] <= tdone[i].order}) >= i
           /\ i < Len(tdone) => tdone[i].ok

C34_Witness ==
    /\ tsteps = <<2, 1>>
    /\ tpc = "done"
    /\ tdone = <<[order |-> 1, ok |-> FALSE]>>


\* The status of the template deployment, "none" before the request.
TemplateStatus ==
    IF TemplateId \in DOMAIN active_deployments
    THEN active_deployments[TemplateId].status
    ELSE "none"

AllStepsSucceeded ==
    /\ Len(tdone) = Len(tsteps)
    /\ \A i \in DOMAIN tdone : tdone[i].ok

\* C35: the status of a template deployment only moves initializing ->
\* running -> success or failed and never leaves a terminal status; it
\* becomes success only when every step has been executed and returned
\* success, and a run with a failed step ends failed; the entry written to
\* the history file carries the terminal status the run has ended with.
C35_TemplateStatusLifecycle ==
    [][/\ TemplateStatus' # TemplateStatus =>
              <<TemplateStatus, TemplateStatus'>> \in
                  {<<"none", "initializing">>, <<"initializing", "running">>,
                   <<"running", "success">>, <<"running", "failed">>}
       /\ (TemplateStatus' = "success") => AllStepsSucceeded'
       /\ (tpc' \in {"read", "write", "done"}) =>
              /\ TemplateStatus' \in TerminalStatus
              /\ (\E i \in DOMAIN tdone' : ~tdone'[i].ok) => TemplateStatus' = "failed"
       /\ (histFile' # histFile) =>
              /\ TemplateId \in DOMAIN histFile'.data
              /\ json_load(histFile'.data)[TemplateId].status = TemplateStatus
              /\ TemplateStatus \in TerminalStatus]_vars

C35_Witness ==
    /\ tpc = "done"
    /\ Len(tdone) = MaxSteps
    /\ TemplateStatus = "success"
    /\ TemplateId \in DOMAIN histFile.data
    /\ json_load(histFile.data)[TemplateId].status = "success"


====
